---- MODULE Spec2Model ----
(***************************************************************************)
(* A model of nova/virt/libvirt/migration.py: the guest descriptor patch   *)
(* applied before a live migration (get_updated_guest_xml and its three    *)
(* steps), the outcome resolver (find_job_type), the abort policy          *)
(* (should_abort) and the downtime scheduler (update_downtime).            *)
(*                                                                         *)
(* Python's None is modelled as the empty set and a present value v as the *)
(* singleton {v}, so that "x == y" and "x is None" of the source translate *)
(* to set equality.                                                        *)
(***************************************************************************)
EXTENDS Integers, Sequences, FiniteSets, TLC

VARIABLES
    pc,        \* "start": a call is pending; "done": it returned or raised;
               \* "redone": the patch was applied again to its own output
    call,      \* the pending call: the function's name and its arguments
    ret,       \* what the call returned or raised, and its effects
    ret2,      \* the same for the second application of the patch
    elapsed,   \* monitoring loop: total elapsed time of the migration
    downtime,  \* monitoring loop: the tracked downtime (olddowntime of the next call)
    applied,   \* monitoring loop: per step of the table, the apply calls made for it
    ticks      \* monitoring loop: number of ticks so far

vars == <<pc, call, ret, ret2, elapsed, downtime, applied, ticks>>

(***************************************************************************)
(* Bounds of the model.                                                    *)
(***************************************************************************)
MaxTime == 3
MaxTimeout == 3
MaxSteps == 3
MaxThreshold == 2
MaxDowntime == 2
MaxTicks == 4

None == {}
Some(v) == {v}

NoRet == [status |-> "none"]

SeqsUpTo(S, n) == UNION {[1..k -> S] : k \in 0..n}

(***************************************************************************)
(* should_abort                                                            *)
(***************************************************************************)
should_abort_strict_mutant(now, progress_time, progress_timeout, el, completion_timeout) ==
    \/ (progress_timeout # 0 /\ (now - progress_time) >= progress_timeout)
    \/ (completion_timeout # 0 /\ el > completion_timeout)

should_abort(now, progress_time, progress_timeout, el, completion_timeout) ==
    IF progress_timeout # 0 /\ (now - progress_time) > progress_timeout
    THEN TRUE
    ELSE IF completion_timeout # 0 /\ el > completion_timeout
         THEN TRUE
         ELSE FALSE

ShouldAbortCalls ==
    [fn : {"should_abort"},
     now : 0..MaxTime, progress_time : 0..MaxTime,
     progress_timeout : 0..MaxTimeout,
     elapsed : 0..MaxTime, completion_timeout : 0..MaxTimeout]

ShouldAbort ==
    /\ pc = "start"
    /\ call.fn = "should_abort"
    /\ ret' = [status |-> "return",
               value |-> should_abort(call.now, call.progress_time,
                                      call.progress_timeout, call.elapsed,
                                      call.completion_timeout)]
    /\ pc' = "done"
    /\ UNCHANGED <<call, ret2, elapsed, downtime, applied, ticks>>

(***************************************************************************)
(* update_downtime                                                         *)
(***************************************************************************)
DowntimeSteps == (0..MaxThreshold) \X (1..MaxDowntime)

\* The loop of lines 229-232: the index of the last step, in sequence order,
\* with elapsed > step[0]; 0 stands for thisstep = None.
RECURSIVE ScanSteps(_, _, _, _)
ScanSteps(steps, el, i, thisstep) ==
    IF i > Len(steps) THEN thisstep
    ELSE ScanSteps(steps, el, i + 1, IF el > steps[i][1] THEN i ELSE thisstep)

\* The bug of selecting the first qualifying step instead of the last.
RECURSIVE ScanStepsFirst(_, _, _)
ScanStepsFirst(steps, el, i) ==
    IF i > Len(steps) THEN 0
    ELSE IF el > steps[i][1] THEN i ELSE ScanStepsFirst(steps, el, i + 1)

ThisStep_first_mutant(steps, el) == ScanStepsFirst(steps, el, 1)

ThisStep(steps, el) == ScanSteps(steps, el, 1, 0)

\* The except clause of line 251: the exceptions it catches.
Caught_nothing_mutant(outcome) == FALSE

Caught(outcome) == outcome = "libvirtError"

\* A bug that would retry: the tracked value does not advance when the
\* apply call fails.
update_downtime_retry_mutant(olddowntime, steps, el, outcome) ==
    LET k == ThisStep(steps, el) IN
    IF k = 0 THEN [status |-> "return", value |-> olddowntime, step |-> 0, apply |-> <<>>]
    ELSE IF Some(steps[k][2]) = olddowntime
    THEN [status |-> "return", value |-> olddowntime, step |-> k, apply |-> <<>>]
    ELSE [status |-> "return",
          value |-> IF outcome = "ok" THEN Some(steps[k][2]) ELSE olddowntime,
          step |-> k, apply |-> <<steps[k][2]>>]

\* update_downtime: what it returns or raises, the step selected (0: none)
\* and the guest.migrate_configure_max_downtime calls made (their arguments).
\* outcome is what that call does: "ok", or the exception it raises.
update_downtime(olddowntime, steps, el, outcome) ==
    LET k == ThisStep(steps, el) IN
    IF k = 0 THEN [status |-> "return", value |-> olddowntime, step |-> 0, apply |-> <<>>]
    ELSE IF Some(steps[k][2]) = olddowntime
    THEN [status |-> "return", value |-> olddowntime, step |-> k, apply |-> <<>>]
    ELSE IF outcome # "ok" /\ ~Caught(outcome)
    THEN [status |-> "raise", value |-> None, step |-> k, apply |-> <<steps[k][2]>>]
    ELSE [status |-> "return", value |-> Some(steps[k][2]), step |-> k,
          apply |-> <<steps[k][2]>>]

ApplyOutcomes == {"ok", "libvirtError"}

OldDowntimes == {None} \cup {Some(d) : d \in 1..MaxDowntime}

UpdateDowntimeCalls ==
    [fn : {"update_downtime"},
     olddowntime : OldDowntimes,
     downtime_steps : SeqsUpTo(DowntimeSteps, MaxSteps),
     elapsed : 0..MaxTime,
     outcome : ApplyOutcomes]

UpdateDowntime ==
    /\ pc = "start"
    /\ call.fn = "update_downtime"
    /\ ret' = update_downtime(call.olddowntime, call.downtime_steps,
                              call.elapsed, call.outcome)
    /\ pc' = "done"
    /\ UNCHANGED <<call, ret2, elapsed, downtime, applied, ticks>>

(***************************************************************************)
(* find_job_type                                                           *)
(***************************************************************************)
VIR_ERR_NO_DOMAIN == "VIR_ERR_NO_DOMAIN"

ErrorCodes == {VIR_ERR_NO_DOMAIN, "VIR_ERR_INTERNAL_ERROR",
               "VIR_ERR_OPERATION_FAILED", "VIR_ERR_SYSTEM_ERROR"}

\* What guest.is_active() does: it returns a boolean or raises libvirtError
\* with an error code.
IsActiveOutcomes ==
    [kind : {"return"}, value : BOOLEAN]
    \cup [kind : {"libvirtError"}, code : ErrorCodes]

find_job_type_any_error_completed_mutant(is_active) ==
    IF is_active.kind = "return"
    THEN IF is_active.value
         THEN [status |-> "return", value |-> "VIR_DOMAIN_JOB_FAILED"]
         ELSE [status |-> "return", value |-> "VIR_DOMAIN_JOB_COMPLETED"]
    ELSE [status |-> "return", value |-> "VIR_DOMAIN_JOB_COMPLETED"]

find_job_type(is_active) ==
    IF is_active.kind = "return"
    THEN IF is_active.value
         THEN [status |-> "return", value |-> "VIR_DOMAIN_JOB_FAILED"]
         ELSE [status |-> "return", value |-> "VIR_DOMAIN_JOB_COMPLETED"]
    ELSE IF is_active.code = VIR_ERR_NO_DOMAIN
         THEN [status |-> "return", value |-> "VIR_DOMAIN_JOB_COMPLETED"]
         ELSE [status |-> "return", value |-> "VIR_DOMAIN_JOB_FAILED"]

FindJobTypeCalls == [fn : {"find_job_type"}, is_active : IsActiveOutcomes]

FindJobType ==
    /\ pc = "start"
    /\ call.fn = "find_job_type"
    /\ ret' = find_job_type(call.is_active)
    /\ pc' = "done"
    /\ UNCHANGED <<call, ret2, elapsed, downtime, applied, ticks>>

(***************************************************************************)
(* Specification of the three decision functions: one call each, on every  *)
(* input within the bounds.                                                *)
(***************************************************************************)
Init ==
    /\ pc = "start"
    /\ call \in ShouldAbortCalls \cup UpdateDowntimeCalls \cup FindJobTypeCalls
    /\ ret = NoRet
    /\ ret2 = NoRet
    /\ elapsed = 0
    /\ downtime = None
    /\ applied = <<>>
    /\ ticks = 0

Next == ShouldAbort \/ UpdateDowntime \/ FindJobType

Spec == Init /\ [][Next]_vars

(***************************************************************************)
(* The monitoring loop around update_downtime: every tick calls it with a  *)
(* non-decreasing elapsed time and the value the previous call returned.   *)
(* The step table is fixed, in ascending threshold order, with pairwise    *)
(* distinct downtime values.                                               *)
(***************************************************************************)
Ascending(steps) ==
    \A i, j \in 1..Len(steps) : i < j => steps[i][1] <= steps[j][1]

DistinctValues(steps) ==
    \A i, j \in 1..Len(steps) : i # j => steps[i][2] # steps[j][2]

StepTables ==
    {s \in SeqsUpTo(DowntimeSteps, MaxSteps) :
        Len(s) > 0 /\ Ascending(s) /\ DistinctValues(s)}

InitMonitor ==
    /\ pc = "start"
    /\ call \in [fn : {"monitor"}, downtime_steps : StepTables]
    /\ ret = NoRet
    /\ ret2 = NoRet
    /\ elapsed = 0
    /\ downtime \in OldDowntimes
    /\ applied = [i \in 1..Len(call.downtime_steps) |-> <<>>]
    /\ ticks = 0

Tick ==
    /\ call.fn = "monitor"
    /\ ticks < MaxTicks
    /\ \E e \in elapsed..MaxTime, outcome \in ApplyOutcomes :
          LET r == update_downtime(downtime, call.downtime_steps, e, outcome) IN
          /\ r.status = "return"
          /\ elapsed' = e
          /\ downtime' = r.value
          /\ applied' = IF r.apply = <<>> THEN applied
                        ELSE [applied EXCEPT ![r.step] = Append(@, outcome)]
          /\ ret' = r
    /\ ticks' = ticks + 1
    /\ UNCHANGED <<pc, call, ret2>>

NextMonitor == Tick

SpecMonitor == InitMonitor /\ [][NextMonitor]_vars

(***************************************************************************)
(* The descriptor patch.                                                   *)
(*                                                                         *)
(* A descriptor (the xml_doc tree) is a record of the children of its      *)
(* devices node that the patch reads:                                      *)
(*   graphics: sequence of [type, listen_tag, listen], where listen_tag is *)
(*             the address of the node's listen child (None: no child) and *)
(*             listen the node's own listen attribute (None: no attribute);*)
(*   serials:  sequence of [kind, type, host], kind "serial" or "console", *)
(*             host the host attribute of the source child (None: absent); *)
(*   disks:    sequence of disk nodes, each the sequence of its children   *)
(*             [tag, val, from]; val is the text of the child and from     *)
(*             says whose child it is, the source's or the destination's.  *)
(* migrate_data is [graphics_listen_addr_vnc, graphics_listen_addr_spice,  *)
(* serial_listen_addr, bdms]; an unset field is None. get_volume_config is *)
(* modelled by its answer per BlockDeviceMapping serial: the children of   *)
(* the fragment conf.to_xml() describes, or an exception.                  *)
(***************************************************************************)
MaxGraphics == 2
MaxSerials == 1
MaxDisks == 2
MaxKids == 2
MaxFragment == 3
MaxBdms == 2

Serials == {"S1", "S2"}

\* The children of a source disk node and of a provider's fragment: from
\* tells the two apart (the content of the destination's child differs).
SrcKids ==
    [tag : {"serial"}, val : Serials, from : {"src"}]
    \cup [tag : {"driver"}, val : {""}, from : {"src"}]

DstKids ==
    [tag : {"serial"}, val : Serials, from : {"dst"}]
    \cup [tag : {"driver"}, val : {""}, from : {"dst"}]

\* graphics_listen_addrs: None, or the dict with both keys.
graphics_listen_addrs(migrate_data) ==
    IF migrate_data.graphics_listen_addr_vnc # None
       \/ migrate_data.graphics_listen_addr_spice # None
    THEN Some([vnc |-> migrate_data.graphics_listen_addr_vnc,
               spice |-> migrate_data.graphics_listen_addr_spice])
    ELSE None

serial_listen_addr(migrate_data) == migrate_data.serial_listen_addr

\* listen_addrs[gr_type] handed to lxml's set(): a TypeError when
\* listen_addrs is None (not subscriptable) or the value is None (set() takes
\* a string), the value otherwise.
ListenAddrFor(listen_addrs, gr_type) ==
    IF listen_addrs = None THEN [status |-> "TypeError", value |-> None]
    ELSE LET d == CHOOSE x \in listen_addrs : TRUE
             v == IF gr_type = "vnc" THEN d.vnc ELSE d.spice
         IN  IF v = None THEN [status |-> "TypeError", value |-> None]
             ELSE [status |-> "ok", value |-> v]

\* The body of the loop of _update_graphics_xml on one graphics node.
UpdateGraphicsDev(dev, listen_addrs) ==
    IF dev.type \in {"vnc", "spice"}
    THEN LET a == ListenAddrFor(listen_addrs, dev.type) IN
         IF dev.listen_tag # None /\ a.status # "ok"
         THEN [status |-> a.status, dev |-> dev]
         ELSE LET d1 == IF dev.listen_tag # None
                        THEN [dev EXCEPT !.listen_tag = a.value] ELSE dev
              IN  IF d1.listen # None /\ a.status # "ok"
                  THEN [status |-> a.status, dev |-> d1]
                  ELSE [status |-> "ok",
                        dev |-> IF d1.listen # None
                                THEN [d1 EXCEPT !.listen = a.value] ELSE d1]
    ELSE [status |-> "ok", dev |-> dev]

RECURSIVE UpdateGraphicsFrom(_, _, _)
UpdateGraphicsFrom(graphics, listen_addrs, i) ==
    IF i > Len(graphics) THEN [status |-> "ok", graphics |-> graphics]
    ELSE LET r == UpdateGraphicsDev(graphics[i], listen_addrs)
             g == [graphics EXCEPT ![i] = r.dev]
         IN  IF r.status # "ok" THEN [status |-> r.status, graphics |-> g]
             ELSE UpdateGraphicsFrom(g, listen_addrs, i + 1)

_update_graphics_xml(xml_doc, migrate_data) ==
    LET r == UpdateGraphicsFrom(xml_doc.graphics,
                                graphics_listen_addrs(migrate_data), 1)
    IN  [status |-> r.status, doc |-> [xml_doc EXCEPT !.graphics = r.graphics]]

\* One of the two loops of _update_serial_xml: the source children of the
\* tcp nodes of one kind.
RECURSIVE UpdateSerialKind(_, _, _, _)
UpdateSerialKind(serials, kind, listen_addr, i) ==
    IF i > Len(serials) THEN [status |-> "ok", serials |-> serials]
    ELSE IF serials[i].kind = kind /\ serials[i].type = "tcp"
            /\ serials[i].host # None
    THEN IF listen_addr = None
         THEN [status |-> "TypeError", serials |-> serials]
         ELSE UpdateSerialKind([serials EXCEPT ![i].host = listen_addr],
                               kind, listen_addr, i + 1)
    ELSE UpdateSerialKind(serials, kind, listen_addr, i + 1)

_update_serial_xml(xml_doc, migrate_data) ==
    LET addr == serial_listen_addr(migrate_data)
        r1 == UpdateSerialKind(xml_doc.serials, "serial", addr, 1)
        r2 == UpdateSerialKind(r1.serials, "console", addr, 1)
        r == IF r1.status # "ok" THEN r1 ELSE r2
    IN  [status |-> r.status, doc |-> [xml_doc EXCEPT !.serials = r.serials]]

\* findtext(tag): the text of the first child with the tag, or None.
RECURSIVE FindTextFrom(_, _, _)
FindTextFrom(children, tag, i) ==
    IF i > Len(children) THEN None
    ELSE IF children[i].tag = tag THEN Some(children[i].val)
    ELSE FindTextFrom(children, tag, i + 1)

FindText(children, tag) == FindTextFrom(children, tag, 1)

\* findall(tag): the positions of the children with the tag, in order.
FindAll(children, tag) == {i \in 1..Len(children) : children[i].tag = tag}

MinOf(S) == CHOOSE i \in S : \A j \in S : i <= j

RemoveAt(seq, i) == SubSeq(seq, 1, i - 1) \o SubSeq(seq, i + 1, Len(seq))

\* bdm_info_by_serial.get(serial): the dict of line 98 keeps the last
\* mapping of each serial.
BdmBySerial(bdms, serial) ==
    LET S == {i \in 1..Len(bdms) : Some(bdms[i].serial) = serial} IN
    IF S = {} THEN None ELSE Some(bdms[CHOOSE i \in S : \A j \in S : j <= i])

\* The condition of lines 102-104: the disk is skipped without a provider call.
SkipDisk(serial_source, bdm_info) ==
    \/ serial_source = None
    \/ bdm_info = None
    \/ (CHOOSE b \in bdm_info : TRUE).connection_info = None

\* The bug of merging whatever fragment the provider answers with.
SerialsMatch_unchecked_mutant(serial_source, serial_dest) == serial_dest # None

\* The condition of line 113.
SerialsMatch(serial_source, serial_dest) ==
    /\ serial_dest # None
    /\ serial_dest # Some("")
    /\ serial_source = serial_dest

\* The loop of lines 117-123 from source child cnt on (cnt counts from 1
\* here): disk_dev is the disk node and rest the children still in xml_doc2.
\* A source child is replaced by the first fragment child of its tag, which
\* moves out of xml_doc2; with a second fragment child of the tag the loop
\* removes item_src again, which is no longer a child: ValueError.
RECURSIVE ReplaceFrom(_, _, _)
ReplaceFrom(disk_dev, rest, cnt) ==
    IF cnt > Len(disk_dev)
    THEN [status |-> "ok", disk_dev |-> disk_dev, rest |-> rest]
    ELSE LET found == FindAll(rest, disk_dev[cnt].tag) IN
         IF found = {} THEN ReplaceFrom(disk_dev, rest, cnt + 1)
         ELSE LET m == MinOf(found)
                  d == [disk_dev EXCEPT ![cnt] = rest[m]]
                  r == RemoveAt(rest, m)
              IN  IF Cardinality(found) > 1
                  THEN [status |-> "ValueError", disk_dev |-> d, rest |-> r]
                  ELSE ReplaceFrom(d, r, cnt + 1)

\* The loop of lines 127-129: every child left in xml_doc2 is inserted at
\* index cnt, the index of the last source child.
RECURSIVE InsertRest(_, _, _)
InsertRest(disk_dev, rest, cnt) ==
    IF rest = <<>> THEN disk_dev
    ELSE InsertRest(SubSeq(disk_dev, 1, cnt - 1) \o <<Head(rest)>>
                        \o SubSeq(disk_dev, cnt, Len(disk_dev)),
                    Tail(rest), cnt)

\* Lines 117-129 on one disk node and the fragment's children.
MergeDisk(disk_dev, fragment) ==
    LET r == ReplaceFrom(disk_dev, fragment, 1) IN
    IF r.status # "ok" THEN [status |-> r.status, disk_dev |-> r.disk_dev]
    ELSE [status |-> "ok",
          disk_dev |-> InsertRest(r.disk_dev, r.rest, Len(disk_dev))]

\* The loop of lines 99-129 from disk pos on; calls is the sequence of
\* serials get_volume_config was called for.
RECURSIVE UpdateVolumeFrom(_, _, _, _, _)
UpdateVolumeFrom(disks, bdms, get_volume_config, pos, calls) ==
    IF pos > Len(disks)
    THEN [status |-> "ok", disks |-> disks, calls |-> calls, pos |-> pos - 1]
    ELSE LET serial_source == FindText(disks[pos], "serial")
             bdm_info == BdmBySerial(bdms, serial_source)
         IN
         IF SkipDisk(serial_source, bdm_info)
         THEN UpdateVolumeFrom(disks, bdms, get_volume_config, pos + 1, calls)
         ELSE LET serial == CHOOSE x \in serial_source : TRUE
                  conf == get_volume_config[serial]
                  called == Append(calls, serial)
              IN
              IF conf.kind = "raise"
              THEN [status |-> "ProviderError", disks |-> disks,
                    calls |-> called, pos |-> pos]
              ELSE IF SerialsMatch(serial_source, FindText(conf.children, "serial"))
              THEN LET m == MergeDisk(disks[pos], conf.children)
                       d == [disks EXCEPT ![pos] = m.disk_dev]
                   IN  IF m.status # "ok"
                       THEN [status |-> m.status, disks |-> d,
                             calls |-> called, pos |-> pos]
                       ELSE UpdateVolumeFrom(d, bdms, get_volume_config,
                                             pos + 1, called)
              ELSE UpdateVolumeFrom(disks, bdms, get_volume_config,
                                    pos + 1, called)

_update_volume_xml(xml_doc, migrate_data, get_volume_config) ==
    LET r == UpdateVolumeFrom(xml_doc.disks, migrate_data.bdms,
                              get_volume_config, 1, <<>>)
    IN  [status |-> r.status, doc |-> [xml_doc EXCEPT !.disks = r.disks],
         calls |-> r.calls, pos |-> r.pos]

\* get_updated_guest_xml: "ok" and the patched tree, or the exception raised
\* and the tree as it was then; the provider calls made and the last disk
\* the volume step looked at.
get_updated_guest_xml(xml_doc, migrate_data, get_volume_config) ==
    LET g == _update_graphics_xml(xml_doc, migrate_data) IN
    IF g.status # "ok"
    THEN [status |-> g.status, doc |-> g.doc, calls |-> <<>>, pos |-> 0]
    ELSE LET s == _update_serial_xml(g.doc, migrate_data) IN
         IF s.status # "ok"
         THEN [status |-> s.status, doc |-> s.doc, calls |-> <<>>, pos |-> 0]
         ELSE _update_volume_xml(s.doc, migrate_data, get_volume_config)

GetUpdatedGuestXml ==
    /\ pc = "start"
    /\ call.fn = "get_updated_guest_xml"
    /\ ret' = get_updated_guest_xml(call.xml_doc, call.migrate_data,
                                    call.get_volume_config)
    /\ pc' = "done"
    /\ UNCHANGED <<call, ret2, elapsed, downtime, applied, ticks>>

\* The patch applied to its own output with the same context and the same
\* provider answers.
Repatch ==
    /\ pc = "done"
    /\ call.fn = "get_updated_guest_xml"
    /\ ret.status = "ok"
    /\ ret2' = get_updated_guest_xml(ret.doc, call.migrate_data,
                                     call.get_volume_config)
    /\ pc' = "redone"
    /\ UNCHANGED <<call, ret, elapsed, downtime, applied, ticks>>

GraphicsNodes ==
    [type : {"vnc", "spice", "rdp"},
     listen_tag : {None, Some("src")},
     listen : {None, Some("src")}]

SerialNodes ==
    [kind : {"serial", "console"}, type : {"tcp", "pty"},
     host : {None, Some("src")}]

DiskNodes == SeqsUpTo(SrcKids, MaxKids)

Opt(a) == {None, Some(a)}

BdmInfos == [serial : Serials, connection_info : Opt("conn")]

ProviderAnswers ==
    {[kind |-> "raise"]}
    \cup [kind : {"xml"}, children : SeqsUpTo(DstKids, MaxFragment)]

\* The serials get_volume_config can be called for: its answer for any
\* other serial is never read and is fixed.
Callable(bdms) ==
    {s \in Serials : \E i \in 1..Len(bdms) :
        bdms[i].serial = s /\ bdms[i].connection_info # None}

Providers(bdms) ==
    {[s \in Serials |-> IF s \in Callable(bdms) THEN g[s] ELSE [kind |-> "raise"]] :
        g \in [Callable(bdms) -> ProviderAnswers]}

\* Descriptors whose disks vary, with one vnc graphics node and an address
\* for it.
VolumeCalls(bdms) ==
    [fn : {"get_updated_guest_xml"},
     xml_doc : [graphics : {<<[type |-> "vnc", listen_tag |-> Some("src"),
                               listen |-> Some("src")]>>},
                serials : {<<>>},
                disks : SeqsUpTo(DiskNodes, MaxDisks) \ {<<>>}],
     migrate_data : [graphics_listen_addr_vnc : {Some("dst")},
                     graphics_listen_addr_spice : {None},
                     serial_listen_addr : {None},
                     bdms : {bdms}],
     get_volume_config : Providers(bdms)]

\* Descriptors whose graphics and serial devices vary, with one disk that
\* the volume step patches.
GraphicsCalls ==
    [fn : {"get_updated_guest_xml"},
     xml_doc : [graphics : SeqsUpTo(GraphicsNodes, MaxGraphics),
                serials : SeqsUpTo(SerialNodes, MaxSerials),
                disks : {<<  <<[tag |-> "serial", val |-> "S1", from |-> "src"],
                               [tag |-> "driver", val |-> "", from |-> "src"]>>  >>}],
     migrate_data : [graphics_listen_addr_vnc : Opt("dst"),
                     graphics_listen_addr_spice : Opt("dst"),
                     serial_listen_addr : Opt("dst"),
                     bdms : {<<[serial |-> "S1", connection_info |-> Some("conn")]>>}],
     get_volume_config :
        {[s \in Serials |->
            IF s = "S1"
            THEN [kind |-> "xml",
                  children |-> <<[tag |-> "serial", val |-> "S1", from |-> "dst"],
                                 [tag |-> "driver", val |-> "", from |-> "dst"]>>]
            ELSE [kind |-> "raise"]]}]

InitPatch ==
    /\ pc = "start"
    /\ \/ \E bdms \in SeqsUpTo(BdmInfos, MaxBdms) : call \in VolumeCalls(bdms)
       \/ call \in GraphicsCalls
    /\ ret = NoRet
    /\ ret2 = NoRet
    /\ elapsed = 0
    /\ downtime = None
    /\ applied = <<>>
    /\ ticks = 0

NextPatch == GetUpdatedGuestXml \/ Repatch

SpecPatch == InitPatch /\ [][NextPatch]_vars

(***************************************************************************)
(* Claims                                                                  *)
(***************************************************************************)
Done(fn) == pc = "done" /\ call.fn = fn

\* C1: should_abort returns true if and only if
\* (progressTimeout != 0 and now - lastProgressTime > progressTimeout) or
\* (completionTimeout != 0 and elapsed > completionTimeout); both comparisons
\* are strict, a zero timeout disables its own check only, and with both
\* timeouts zero the result is false.
C1_ShouldAbort ==
    Done("should_abort") =>
        /\ ret.status = "return"
        /\ ret.value = TRUE <=>
              \/ (call.progress_timeout # 0
                  /\ call.now - call.progress_time > call.progress_timeout)
              \/ (call.completion_timeout # 0
                  /\ call.elapsed > call.completion_timeout)
        /\ (call.progress_timeout = 0 /\ call.completion_timeout = 0)
              => ret.value = FALSE
        /\ (call.now - call.progress_time = call.progress_timeout
            /\ call.elapsed = call.completion_timeout) => ret.value = FALSE

\* A stalled migration whose completion check is disabled and whose elapsed
\* time is positive: aborted by the stall check alone.
C1_Witness ==
    /\ Done("should_abort")
    /\ call.completion_timeout = 0
    /\ call.elapsed > 0
    /\ call.progress_timeout # 0
    /\ call.now - call.progress_time > call.progress_timeout
    /\ ret.value = TRUE

Qualifying(steps, el) == {i \in 1..Len(steps) : steps[i][1] < el}

LastOf(S) == CHOOSE i \in S : \A j \in S : j <= i

\* C2: update_downtime returns oldDowntime when no step has a threshold
\* strictly less than elapsed, and otherwise the downtime value of the last
\* step in sequence order whose threshold is strictly less than elapsed,
\* for every step sequence, sorted or not.
C2_UpdateDowntimeValue ==
    Done("update_downtime") =>
        LET Q == Qualifying(call.downtime_steps, call.elapsed) IN
        /\ ret.status = "return"
        /\ Q = {} => ret.value = call.olddowntime
        /\ Q # {} => ret.value = Some(call.downtime_steps[LastOf(Q)][2])

\* An unsorted table: two steps qualify, the later one has the smaller
\* threshold and another value, a third step's threshold equals elapsed, and
\* the later qualifying step's value is returned.
C2_Witness ==
    /\ Done("update_downtime")
    /\ \E i, j, k \in 1..Len(call.downtime_steps) :
          LET s == call.downtime_steps IN
          /\ i < j /\ j < k
          /\ s[i][1] < call.elapsed /\ s[j][1] < call.elapsed
          /\ s[j][1] < s[i][1]
          /\ s[k][1] = call.elapsed
          /\ s[i][2] # s[j][2] /\ s[k][2] # s[j][2]
          /\ call.olddowntime # Some(s[j][2])
          /\ ret.value = Some(s[j][2])

\* C3: one call of update_downtime invokes the apply capability exactly
\* once, with the selected step's value, when a step is selected and its
\* value differs from oldDowntime, and not at all otherwise; when that
\* invocation fails, the failure is not propagated and the selected step's
\* value is returned.
C3_ApplyOnce ==
    Done("update_downtime") =>
        LET Q == Qualifying(call.downtime_steps, call.elapsed)
            sel == call.downtime_steps[LastOf(Q)][2]
        IN  /\ (Q # {} /\ Some(sel) # call.olddowntime) => ret.apply = <<sel>>
            /\ (Q = {} \/ Some(sel) = call.olddowntime) => ret.apply = <<>>
            /\ (ret.apply # <<>> /\ call.outcome # "ok") =>
                  (ret.status = "return" /\ ret.value = Some(sel))

\* The apply call was made and failed, and the selected value came back.
C3_Witness ==
    /\ Done("update_downtime")
    /\ call.outcome = "libvirtError"
    /\ Len(ret.apply) = 1
    /\ ret.status = "return"
    /\ ret.value = Some(ret.apply[1])
    /\ ret.value # call.olddowntime

\* C4: find_job_type returns Failed when the guest is active, Completed when
\* it is not, Completed when the query fails with no-such-domain and Failed
\* when it fails with any other error; it always returns.
C4_FindJobType ==
    Done("find_job_type") =>
        LET q == call.is_active IN
        /\ ret.status = "return"
        /\ (q.kind = "return" /\ q.value) => ret.value = "VIR_DOMAIN_JOB_FAILED"
        /\ (q.kind = "return" /\ ~q.value) => ret.value = "VIR_DOMAIN_JOB_COMPLETED"
        /\ (q.kind = "libvirtError" /\ q.code = VIR_ERR_NO_DOMAIN)
              => ret.value = "VIR_DOMAIN_JOB_COMPLETED"
        /\ (q.kind = "libvirtError" /\ q.code # VIR_ERR_NO_DOMAIN)
              => ret.value = "VIR_DOMAIN_JOB_FAILED"

\* The query failed with an error other than no-such-domain and Failed was
\* returned.
C4_Witness ==
    /\ Done("find_job_type")
    /\ call.is_active.kind = "libvirtError"
    /\ call.is_active.code # VIR_ERR_NO_DOMAIN
    /\ ret.status = "return"
    /\ ret.value = "VIR_DOMAIN_JOB_FAILED"

\* C10: in the monitoring loop the apply capability is invoked at most once
\* per step of the table: once an apply for a step's value was attempted,
\* successfully or not, no later tick that selects the step applies again.
C10_ApplyAtMostOncePerStep ==
    call.fn = "monitor" =>
        \A i \in 1..Len(call.downtime_steps) : Len(applied[i]) <= 1

\* A step's only apply failed, and a later tick selected the same step
\* without applying again.
C10_Witness ==
    /\ call.fn = "monitor"
    /\ ticks >= 2
    /\ ret.status = "return"
    /\ ret.step > 0
    /\ ret.apply = <<>>
    /\ applied[ret.step] = <<"libvirtError">>

Patched == call.fn = "get_updated_guest_xml" /\ pc # "start"

InDisks == call.xml_doc.disks

OutDisks == ret.doc.disks

\* The serial of source disk i: the text of its first serial child, or None.
SerialOf(i) ==
    LET S == {p \in 1..Len(InDisks[i]) : InDisks[i][p].tag = "serial"} IN
    IF S = {} THEN None
    ELSE Some(InDisks[i][CHOOSE p \in S : \A q \in S : p <= q].val)

\* A BlockDeviceMapping with disk i's serial and with connection-info exists.
HasBdm(i) ==
    \E j \in 1..Len(call.migrate_data.bdms) :
        /\ Some(call.migrate_data.bdms[j].serial) = SerialOf(i)
        /\ call.migrate_data.bdms[j].connection_info # None

\* The provider's answer for disk i's serial.
AnswerFor(i) == call.get_volume_config[CHOOSE x \in SerialOf(i) : TRUE]

ProviderFails(i) == HasBdm(i) /\ AnswerFor(i).kind = "raise"

\* The provider's fragment for disk i carries disk i's serial.
FragmentMatches(i) ==
    /\ HasBdm(i)
    /\ AnswerFor(i).kind = "xml"
    /\ \E p \in 1..Len(AnswerFor(i).children) :
          /\ AnswerFor(i).children[p].tag = "serial"
          /\ Some(AnswerFor(i).children[p].val) = SerialOf(i)
          /\ \A q \in 1..(p - 1) : AnswerFor(i).children[q].tag # "serial"

UniqueSerials ==
    \A j, k \in 1..Len(call.migrate_data.bdms) :
        j # k => call.migrate_data.bdms[j].serial # call.migrate_data.bdms[k].serial

TagsOf(node) == {node[p].tag : p \in 1..Len(node)}

DistinctTags(node) == Cardinality(TagsOf(node)) = Len(node)

Count(seq, x) == Cardinality({p \in 1..Len(seq) : seq[p] = x})

\* The merged node the claim describes for source node src and fragment frag.
MergedAsClaimed(src, frag, out) ==
    LET extra == {p \in 1..Len(frag) : frag[p].tag \notin TagsOf(src)} IN
    /\ Len(out) = Len(src) + Cardinality(extra)
    /\ \A p \in 1..Len(src) :
          IF \E q \in 1..Len(frag) : frag[q].tag = src[p].tag
          THEN \E q \in 1..Len(frag) : frag[q].tag = src[p].tag /\ out[p] = frag[q]
          ELSE out[p] = src[p]
    /\ \A q \in extra :
          Count(SubSeq(out, Len(src) + 1, Len(out)), frag[q])
              = Cardinality({r \in extra : frag[r] = frag[q]})

\* C5: for a disk node whose serial matches a BlockDeviceMapping with
\* connection-info and whose fragment carries the same serial, the volume
\* patch completes without error for every fragment, every source child keeps
\* its position and is replaced by the destination's child of its tag when
\* there is one, and every fragment child whose tag is not in the source node
\* is appended after the source children, each exactly once. (Stated for
\* source nodes with pairwise distinct tags, unique BlockDeviceMapping
\* serials and a provider that answers.)
C5_VolumeMerge ==
    (Patched /\ UniqueSerials
     /\ \A i \in 1..Len(InDisks) : ~ProviderFails(i)) =>
        \A i \in 1..Len(InDisks) :
            (FragmentMatches(i) /\ DistinctTags(InDisks[i])) =>
                /\ ret.status = "ok"
                /\ MergedAsClaimed(InDisks[i], AnswerFor(i).children, OutDisks[i])

GraphicsLacksAddr(g) ==
    \/ g.type = "vnc" /\ call.migrate_data.graphics_listen_addr_vnc = None
    \/ g.type = "spice" /\ call.migrate_data.graphics_listen_addr_spice = None

SerialLacksAddr(d) ==
    d.type = "tcp" /\ d.host # None /\ call.migrate_data.serial_listen_addr = None

\* C7: when the descriptor has a vnc or spice graphics node, or a TCP
\* serial/console source with a host attribute, and the context supplies no
\* listen address for that kind, the patch does not fail, leaves that node's
\* listen/address/host attributes unmodified and still patches the remaining
\* devices.
C7_MissingAddressSkipped ==
    Patched =>
        LET gin == call.xml_doc.graphics
            sin == call.xml_doc.serials
        IN
        ((\E i \in 1..Len(gin) : GraphicsLacksAddr(gin[i]))
         \/ (\E i \in 1..Len(sin) : SerialLacksAddr(sin[i]))) =>
            /\ ret.status = "ok"
            /\ \A i \in 1..Len(gin) :
                  GraphicsLacksAddr(gin[i]) => ret.doc.graphics[i] = gin[i]
            /\ \A i \in 1..Len(sin) :
                  SerialLacksAddr(sin[i]) => ret.doc.serials[i] = sin[i]
            /\ \A i \in 1..Len(InDisks) :
                  (FragmentMatches(i) /\ UniqueSerials) => OutDisks[i] # InDisks[i]

\* C8: when the provider fails for a disk node, that node is left unchanged,
\* the remaining disk nodes are still processed and the patch returns a
\* descriptor.
C8_ProviderFailureSkipped ==
    Patched =>
        \A i \in 1..ret.pos :
            (ProviderFails(i) /\ UniqueSerials) =>
                /\ ret.status = "ok"
                /\ OutDisks[i] = InDisks[i]
                /\ ret.pos = Len(InDisks)

\* C9: the patch applied to its own output, with the same context and the
\* same provider answers, succeeds and yields the tree of the first
\* application.
C9_Idempotent ==
    pc = "redone" => (ret2.status = "ok" /\ ret2.doc = ret.doc)

====
